---- MODULE Spec2Model ----
(***************************************************************************)
(* Bronze -> silver -> gold batch pipeline of restaurant-pipeline.         *)
(* Files on storage are the state; every flow is one atomic action (the    *)
(* flows run synchronously, one after the other).  Strings are TLA+        *)
(* strings, read character by character with Head/Tail/SubSeq.             *)
(***************************************************************************)
EXTENDS Integers, Sequences, FiniteSets, TLC

(***************************************************************************)
(* Characters and the string helpers of Python that the flows use.         *)
(***************************************************************************)
UpperChars == "ABCDEFGHIJKLMNOPQRSTUVWXYZ"
LowerChars == "abcdefghijklmnopqrstuvwxyz"
DigitChars == "0123456789"

CharAt(s, i) == SubSeq(s, i, i)

CharsOf(s) == { CharAt(s, i) : i \in 1..Len(s) }

UpperSet == CharsOf(UpperChars)
LowerSet == CharsOf(LowerChars)
DigitSet == CharsOf(DigitChars)

IsUpper(c) == c \in UpperSet
IsLower(c) == c \in LowerSet
IsDigit(c) == c \in DigitSet

\* str.lower() of one character (ASCII)
LowerChar(c) ==
    IF IsUpper(c)
    THEN CharAt(LowerChars, CHOOSE i \in 1..Len(UpperChars) : CharAt(UpperChars, i) = c)
    ELSE c

RECURSIVE Lower(_)
Lower(s) == IF s = "" THEN "" ELSE LowerChar(Head(s)) \o Lower(Tail(s))

\* str.strip(chars): drop leading and trailing characters that are in chars
RECURSIVE LStrip(_, _)
LStrip(s, chars) ==
    IF s # "" /\ Head(s) \in chars THEN LStrip(Tail(s), chars) ELSE s

RECURSIVE RStrip(_, _)
RStrip(s, chars) ==
    IF s # "" /\ CharAt(s, Len(s)) \in chars
    THEN RStrip(SubSeq(s, 1, Len(s) - 1), chars)
    ELSE s

Strip(s, chars) == RStrip(LStrip(s, chars), chars)

\* re.sub(r"[ \-]+", "_", s): every maximal run of spaces and hyphens -> "_"
RECURSIVE SubSpaceHyphen(_)
SubSpaceHyphen(s) ==
    IF s = "" THEN ""
    ELSE IF Head(s) \in {" ", "-"}
         THEN "_" \o SubSpaceHyphen(LStrip(s, {" ", "-"}))
         ELSE Head(s) \o SubSpaceHyphen(Tail(s))

\* length of the longest prefix of s made of lower-case letters ([a-z]+ is greedy)
RECURSIVE LowerRun(_)
LowerRun(s) == IF s # "" /\ IsLower(Head(s)) THEN 1 + LowerRun(Tail(s)) ELSE 0

\* re.sub(r"(.)([A-Z][a-z]+)", r"\1_\2", s): leftmost, non-overlapping matches
RECURSIVE SubCapWord(_)
SubCapWord(s) ==
    IF s = "" THEN ""
    ELSE IF Len(s) >= 3 /\ IsUpper(CharAt(s, 2)) /\ IsLower(CharAt(s, 3))
         THEN LET n == 2 + LowerRun(SubSeq(s, 3, Len(s)))
              IN  Head(s) \o "_" \o SubSeq(s, 2, n) \o SubCapWord(SubSeq(s, n + 1, Len(s)))
         ELSE Head(s) \o SubCapWord(Tail(s))

\* re.sub(r"([a-z0-9])([A-Z])", r"\1_\2", s)
RECURSIVE SubLowerUpper(_)
SubLowerUpper(s) ==
    IF s = "" THEN ""
    ELSE IF Len(s) >= 2 /\ (IsLower(Head(s)) \/ IsDigit(Head(s))) /\ IsUpper(CharAt(s, 2))
         THEN Head(s) \o "_" \o CharAt(s, 2) \o SubLowerUpper(SubSeq(s, 3, Len(s)))
         ELSE Head(s) \o SubLowerUpper(Tail(s))

\* re.sub(r"__+", "_", s)
RECURSIVE SubUnderscores(_)
SubUnderscores(s) ==
    IF s = "" THEN ""
    ELSE IF Len(s) >= 2 /\ Head(s) = "_" /\ CharAt(s, 2) = "_"
         THEN "_" \o SubUnderscores(LStrip(s, {"_"}))
         ELSE Head(s) \o SubUnderscores(Tail(s))

\* bronze_flow._to_snake
_to_snake(s) ==
    Lower(Strip(SubUnderscores(SubLowerUpper(SubCapWord(SubSpaceHyphen(s)))), {"_"}))


\* str.replace(old, ""): remove every occurrence of old, left to right
RECURSIVE Remove(_, _)
Remove(s, old) ==
    IF Len(s) < Len(old) THEN s
    ELSE IF SubSeq(s, 1, Len(old)) = old
         THEN Remove(SubSeq(s, Len(old) + 1, Len(s)), old)
         ELSE Head(s) \o Remove(Tail(s), old)

(***************************************************************************)
(* Data frames.  A frame is a set of column names and a sequence of rows,  *)
(* each row a function from the columns to a cell.  A cell is a string;    *)
(* NA is the null cell (NaN / None / NaT).  A CSV file on storage holds     *)
(* text: to_csv writes a null as the empty field, read_csv reads the empty  *)
(* field and the NA tokens back as null.                                    *)
(***************************************************************************)
NA == "<NA>"

\* the function on columns that maps c to F(c), and the sequence F(1), ..., F(n)
RECURSIVE MapCols(_, _)
MapCols(F(_), columns) ==
    IF columns = {} THEN <<>>
    ELSE LET c == CHOOSE x \in columns : TRUE
         IN  (c :> F(c)) @@ MapCols(F, columns \ {c})

RECURSIVE MapSeq(_, _)
MapSeq(F(_), n) == IF n = 0 THEN <<>> ELSE Append(MapSeq(F, n - 1), F(n))

\* a frame with the same number of rows: row i becomes the function c -> Cell(row i, c)
MapFrame(Cell(_, _), columns, rows) ==
    [cols |-> columns,
     rows |-> MapSeq(LAMBDA i : MapCols(LAMBDA c : Cell(rows[i], c), columns), Len(rows))]

\* pd.DataFrame()
EmptyFrame == [cols |-> {}, rows |-> <<>>]

\* pd.DataFrame(columns=[...])
FrameOf(columns) == [cols |-> columns, rows |-> <<>>]

\* DataFrame.empty: some axis has length 0
IsEmpty(df) == df.cols = {} \/ Len(df.rows) = 0

\* a file that is not on storage
ABSENT == [present |-> FALSE, cols |-> {}, rows |-> <<>>]

FileOf(df) == [present |-> TRUE, cols |-> df.cols, rows |-> df.rows]

\* the values pandas' read_csv reads as missing (those the model's cells can hold)
NaValues == {"", "<NA>", "NA", "NaN", "nan", "null", "None", "N/A", "n/a"}

\* DataFrame.to_csv(path, index=False): a null cell is written as the empty field
to_csv(df) ==
    FileOf(MapFrame(LAMBDA r, c : IF r[c] = NA THEN "" ELSE r[c], df.cols, df.rows))

\* pd.read_csv(path, dtype=str) of a file that has a header line
read_csv(file) ==
    MapFrame(LAMBDA r, c : IF r[c] \in NaValues THEN NA ELSE r[c], file.cols, file.rows)

\* read_csv raises EmptyDataError on a file with no header (what to_csv writes
\* for a frame with no columns)
ReadRaises(file) == file.cols = {}

\* bronze_flow.normalize_df_columns with the renaming function as a parameter
RenameColumns(Fn(_), df) ==
    LET name    == MapCols(Fn, df.cols)
        newcols == { name[c] : c \in df.cols }
        old     == MapCols(LAMBDA d : CHOOSE c \in df.cols : name[c] = d, newcols)
    IN  MapFrame(LAMBDA r, d : r[old[d]], newcols, df.rows)


\* df[name] = value for every row (Value gets the row)
WithColumn(Value(_), name, df) ==
    MapFrame(LAMBDA r, c : IF c = name THEN Value(r) ELSE r[c], df.cols \cup {name}, df.rows)

\* a row widened to columns, null where the row has no such column
Reindexed(row, columns) ==
    MapCols(LAMBDA c : IF c \in DOMAIN row THEN row[c] ELSE NA, columns)

RECURSIVE FlattenRows(_, _)
FlattenRows(dfs, columns) ==
    IF dfs = <<>> THEN <<>>
    ELSE MapSeq(LAMBDA i : Reindexed(Head(dfs).rows[i], columns), Len(Head(dfs).rows))
         \o FlattenRows(Tail(dfs), columns)

\* pd.concat(dfs, ignore_index=True, sort=False): outer union of the columns
concat(dfs) ==
    LET columns == UNION { dfs[k].cols : k \in 1..Len(dfs) }
    IN  [cols |-> columns, rows |-> FlattenRows(dfs, columns)]

\* A JSON object {"score": v} is held as the text Python prints for the dict.
DictPrefix == "{'score': "

SentimentDict(v) == DictPrefix \o v \o "}"

(***************************************************************************)
(* The inputs.  Tabular files hold up to MaxCsvRows rows, the event log up  *)
(* to MaxLogRows lines drawn from LogLines.                                 *)
(***************************************************************************)
MaxCsvRows == 3
MaxLogRows == 2

T0 == "2024-01-01T00:00:00Z"
T20m == "2024-01-01T00:20:00Z"
T2h == "2024-01-01T02:00:00Z"

Names == <<"Ann", "", "Bob">>

\* customers.csv: headers "Customer ID" and "Name"; every second name is blank
CustomersRow(i) ==
    [h \in {"Customer ID", "Name"} |->
        IF h = "Name" THEN Names[((i - 1) % Len(Names)) + 1] ELSE ToString(i)]

\* orders.csv: headers "orderId" and "customerId"
OrdersRow(i) ==
    [h \in {"orderId", "customerId"} |->
        IF h = "orderId" THEN "o" \o ToString(i) ELSE ToString(i)]

CsvFile(Row(_), columns, n) ==
    [present |-> TRUE, cols |-> columns, rows |-> MapSeq(Row, n)]

CustomersFiles ==
    { CsvFile(CustomersRow, {"Customer ID", "Name"}, n) : n \in 0..MaxCsvRows }

OrdersFiles ==
    { CsvFile(OrdersRow, {"orderId", "customerId"}, n) : n \in 0..MaxCsvRows }

\* stores.csv: a tabular source that carries both timestamps of a response time
StoresFile ==
    [present |-> TRUE,
     cols |-> {"Store-Name", "firstResponseAt", "Resolved At"},
     rows |-> << [h \in {"Store-Name", "firstResponseAt", "Resolved At"} |->
                    IF h = "Store-Name" THEN "s1"
                    ELSE IF h = "firstResponseAt" THEN T0 ELSE T2h] >>]

\* the lines of support_tickets.jsonl: JSON objects, null as NA
LogLines ==
    { [ticket_id |-> "t1", agent_id |-> "a1", status |-> "open",
       sentiment |-> SentimentDict("0.5"),
       first_response_at |-> T0, resolved_at |-> T20m],
      [ticket_id |-> "t2", agent_id |-> "a1", status |-> "closed",
       sentiment |-> SentimentDict("-0.5"),
       first_response_at |-> T0, resolved_at |-> T2h],
      [ticket_id |-> " ", agent_id |-> "a2", status |-> "open",
       sentiment |-> SentimentDict("0.49"),
       first_response_at |-> T0, resolved_at |-> "soon"],
      [ticket_id |-> "t4", agent_id |-> "a2", status |-> NA,
       sentiment |-> "n/a",
       first_response_at |-> NA, resolved_at |-> T0],
      [ticket_id |-> NA, agent_id |-> NA, status |-> "closed",
       sentiment |-> SentimentDict("'abc'"),
       first_response_at |-> T20m, resolved_at |-> T20m],
      [ticket_id |-> "t6", status |-> "open"] }

LogFiles ==
    { [present |-> TRUE, cols |-> {}, rows |-> lines] :
        lines \in UNION { [1..n -> LogLines] : n \in 0..MaxLogRows } }

\* inputs with tabular sources only
TabularInputs ==
    { [customers |-> c, orders |-> o, stores |-> st, log |-> ABSENT] :
        c \in CustomersFiles \cup {ABSENT},
        o \in OrdersFiles \cup {ABSENT},
        st \in {StoresFile, ABSENT} }

\* inputs with the event log, alone or beside customers.csv
LogInputs ==
    { [customers |-> c, orders |-> ABSENT, stores |-> ABSENT, log |-> l] :
        c \in { f \in CustomersFiles : Len(f.rows) <= 1 } \cup {ABSENT},
        l \in LogFiles }

\* a silver file left on storage by an earlier run
StaleSilver ==
    [present |-> TRUE,
     cols |-> {"ticket_id", "agent_id", "response_time_hours"},
     rows |-> << [c \in {"ticket_id", "agent_id", "response_time_hours"} |->
                    IF c = "ticket_id" THEN "t9" ELSE IF c = "agent_id" THEN "a9" ELSE "2.0"] >>]

\* every column name the inputs and the flows use, and its normalized form
Headers ==
    LET raw == UNION ({ f.cols : f \in CustomersFiles \cup OrdersFiles \cup {StoresFile} }
                      \cup { DOMAIN l : l \in LogLines })
                \cup {"_src", "sentiment_score"}
    IN  raw \cup { _to_snake(h) : h \in raw }

\* [_to_snake(c) for c in df.columns], computed once for the names in Headers
SnakeNames == MapCols(_to_snake, Headers)

(***************************************************************************)
(* Storage.  raw_csvs and support_tickets are the input files, bronze,      *)
(* silver and gold the files the flows write.  outcome records how the last *)
(* invocation of each flow ended.                                           *)
(***************************************************************************)
VARIABLES raw_csvs, support_tickets, bronze, silver, gold, outcome, last

vars == <<raw_csvs, support_tickets, bronze, silver, gold, outcome, last>>

(***************************************************************************)
(* bronze_flow                                                             *)
(***************************************************************************)
\* one name of df.columns, normalized
Normalized(c) == IF c \in DOMAIN SnakeNames THEN SnakeNames[c] ELSE _to_snake(c)

normalize_df_columns(df) == RenameColumns(Normalized, df)

csv_names ==
    <<"customers.csv", "orders.csv", "stores.csv", "products.csv", "items.csv", "supplies.csv">>

CsvNameSet == { csv_names[i] : i \in 1..Len(csv_names) }

\* fname.replace(".csv", "")
SrcName(fname) == Remove(fname, ".csv")

\* the name of the provenance column set on every tabular frame
SrcColumn == "_src"

\* one tabular source: read as strings, normalized, tagged
CsvFrame(fname) ==
    WithColumn(LAMBDA r : SrcName(fname), SrcColumn,
               normalize_df_columns(read_csv(raw_csvs[fname])))

\* a candidate is read when it exists and read_csv does not raise on it
CsvIsRead(fname) == raw_csvs[fname].present /\ ~ReadRaises(raw_csvs[fname])

ReadNames == SelectSeq(csv_names, CsvIsRead)

csv_dfs == LET names == ReadNames IN MapSeq(LAMBDA k : CsvFrame(names[k]), Len(names))

df_csv_combined == LET dfs == csv_dfs IN IF dfs # <<>> THEN concat(dfs) ELSE EmptyFrame

\* pd.read_json(path, lines=True, dtype=False): one row per line, the columns are
\* the keys of all the lines
read_json(file) ==
    LET columns == UNION { DOMAIN file.rows[i] : i \in 1..Len(file.rows) }
    IN  [cols |-> columns,
         rows |-> MapSeq(LAMBDA i : Reindexed(file.rows[i], columns), Len(file.rows))]

\* isinstance(x, dict)
IsDict(x) == x # NA /\ Len(x) >= 2 /\ Head(x) = "{" /\ CharAt(x, Len(x)) = "}"

\* x.get("score")
GetScore(x) ==
    IF Len(x) > Len(DictPrefix) + 1 /\ SubSeq(x, 1, Len(DictPrefix)) = DictPrefix
    THEN Strip(SubSeq(x, Len(DictPrefix) + 1, Len(x) - 1), {"'"})
    ELSE NA

\* lambda x: x.get("score") if isinstance(x, dict) else None
FlattenScore(x) == IF IsDict(x) THEN GetScore(x) ELSE NA

LogFrame ==
    LET df == normalize_df_columns(read_json(support_tickets))
    IN  IF "sentiment" \in df.cols
        THEN WithColumn(LAMBDA r : FlattenScore(r["sentiment"]), "sentiment_score", df)
        ELSE df

df_json == IF support_tickets.present THEN LogFrame ELSE EmptyFrame

\* "Union by columns": the frame chosen from the two parts
UnionByColumns(csv, json) ==
    IF ~IsEmpty(csv) /\ ~IsEmpty(json) THEN concat(<<csv, json>>)
    ELSE IF ~IsEmpty(csv) THEN csv
    ELSE json

\* the frame before the final normalization of its column names
combined == UnionByColumns(df_csv_combined, df_json)

BronzeFrame == normalize_df_columns(combined)

\* bronze_flow always writes its file
BronzeFlow ==
    /\ bronze' = to_csv(BronzeFrame)
    /\ outcome' = [outcome EXCEPT !["bronze"] = "ok"]
    /\ last' = "bronze_flow"
    /\ UNCHANGED <<raw_csvs, support_tickets, silver, gold>>

(***************************************************************************)
(* silver_flow                                                             *)
(***************************************************************************)
TimestampColumns ==
    {"first_response_at", "resolved_at", "updated_at", "created_at",
     "order_timestamp", "last_delivery_at", "sla_due_at"}

\* The timestamp texts the inputs use: as written in the sources (raw), as pandas
\* writes the parsed UTC timestamp (iso), and their offset in seconds from the
\* first one.  Every other text fails to parse.
Timestamps ==
    { [raw |-> "2024-01-01T00:00:00Z", iso |-> "2024-01-01 00:00:00+00:00", secs |-> 0],
      [raw |-> "2024-01-01T00:20:00Z", iso |-> "2024-01-01 00:20:00+00:00", secs |-> 1200],
      [raw |-> "2024-01-01T02:00:00Z", iso |-> "2024-01-01 02:00:00+00:00", secs |-> 7200] }

\* pd.to_datetime(value, errors="coerce", utc=True): NaT for what does not parse
to_datetime(v) ==
    IF \E t \in Timestamps : v \in {t.raw, t.iso}
    THEN (CHOOSE t \in Timestamps : v \in {t.raw, t.iso}).iso
    ELSE NA

\* a parsed timestamp in seconds
total_seconds(iso) == (CHOOSE t \in Timestamps : t.iso = iso).secs

\* the text to_csv writes for the float secs / 3600.0
HoursText(secs) ==
    LET a == IF secs < 0 THEN 0 - secs ELSE secs
        digits == CASE a = 0    -> "0.0"
                    [] a = 1200 -> "0.3333333333333333"
                    [] a = 6000 -> "1.6666666666666667"
                    [] a = 7200 -> "2.0"
    IN  IF secs < 0 THEN "-" \o digits ELSE digits

ParseTimestamps(df) ==
    MapFrame(LAMBDA r, c : IF c \in TimestampColumns THEN to_datetime(r[c]) ELSE r[c],
             df.cols, df.rows)

\* (resolved_at - first_response_at).dt.total_seconds() / 3600.0 of one row
ResponseTimeHours(df, r) ==
    IF "resolved_at" \in df.cols /\ "first_response_at" \in df.cols
    THEN IF r["resolved_at"] # NA /\ r["first_response_at"] # NA
         THEN HoursText(total_seconds(r["resolved_at"]) - total_seconds(r["first_response_at"]))
         ELSE NA
    ELSE NA

WithResponseTime(df) ==
    WithColumn(LAMBDA r : ResponseTimeHours(df, r), "response_time_hours", df)

Whitespace == {" ", "\t"}

\* the ticket_id test without the strip: notna() alone
HasTicketIdNotNull(r) == r["ticket_id"] # NA

\* notna() & (astype(str).str.strip() != "") of one row's ticket_id
HasTicketId(r) == r["ticket_id"] # NA /\ Strip(r["ticket_id"], Whitespace) # ""

\* the filter that treats a missing ticket_id column as null in every row
FilterTicketsRequired(df) ==
    IF "ticket_id" \in df.cols
    THEN [cols |-> df.cols, rows |-> SelectSeq(df.rows, HasTicketId)]
    ELSE [cols |-> df.cols, rows |-> <<>>]

\* "Filter out rows with null ticket_id (if the column exists)"
FilterTickets(df) ==
    IF "ticket_id" \in df.cols
    THEN [cols |-> df.cols, rows |-> SelectSeq(df.rows, HasTicketId)]
    ELSE df

\* the frame silver_flow writes for a bronze file it could read
SilverFrame(file) == FilterTickets(WithResponseTime(ParseTimestamps(read_csv(file))))

\* how silver_flow ends on a bronze file
SilverResult(file) ==
    IF ~file.present THEN "short"
    ELSE IF ReadRaises(file) THEN "raised"
    ELSE "ok"

\* the silver file after silver_flow ran on a bronze file
SilverWritten(file, old) ==
    IF SilverResult(file) = "ok" THEN to_csv(SilverFrame(file)) ELSE old

SilverFlow ==
    /\ silver' = SilverWritten(bronze, silver)
    /\ outcome' = [outcome EXCEPT !["silver"] = SilverResult(bronze)]
    /\ last' = "silver_flow"
    /\ UNCHANGED <<raw_csvs, support_tickets, bronze, gold>>

(***************************************************************************)
(* gold_flow.  A number is [kind, num, den]: an "int" is num (den = 1), a    *)
(* "float" is (num / den) * 10^-5, and den = 0 is NaN (the mean of no       *)
(* values).                                                                 *)
(***************************************************************************)
Count(n) == [kind |-> "int", num |-> n, den |-> 1]

Float(n, d) == [kind |-> "float", num |-> n, den |-> d]

NaN == Float(0, 0)

IsNaN(v) == v.den = 0

DigitVal(c) == (CHOOSE i \in 1..Len(DigitChars) : CharAt(DigitChars, i) = c) - 1

AllDigits(s) == \A i \in 1..Len(s) : IsDigit(CharAt(s, i))

RECURSIVE ParseNat(_)
ParseNat(s) ==
    IF s = "" THEN 0 ELSE 10 * ParseNat(SubSeq(s, 1, Len(s) - 1)) + DigitVal(CharAt(s, Len(s)))

\* the position of the first "." of s, or 0
RECURSIVE DotAt(_, _)
DotAt(s, i) ==
    IF i > Len(s) THEN 0 ELSE IF CharAt(s, i) = "." THEN i ELSE DotAt(s, i + 1)

\* the value of an unsigned decimal text, in units of 10^-5 (later digits are cut)
ParseUnsigned(s) ==
    LET dot  == DotAt(s, 1)
        ip   == IF dot = 0 THEN s ELSE SubSeq(s, 1, dot - 1)
        fp   == IF dot = 0 THEN "" ELSE SubSeq(s, dot + 1, Len(s))
        fp5  == SubSeq(fp \o "00000", 1, 5)
    IN  IF s # "" /\ ip \o fp # "" /\ AllDigits(ip) /\ AllDigits(fp)
        THEN Float(ParseNat(ip \o fp5), 1)
        ELSE NaN

\* pd.to_numeric(value, errors="coerce") of one cell
to_numeric(v) ==
    IF v = NA \/ v = "" THEN NaN
    ELSE IF Head(v) = "-"
         THEN LET u == ParseUnsigned(Tail(v))
              IN  IF IsNaN(u) THEN NaN ELSE Float(0 - u.num, 1)
         ELSE ParseUnsigned(v)

\* v > t: the comparison without the boundary
GreaterThan(v, t) == ~IsNaN(v) /\ v.num > t * v.den

\* v >= t and v <= t for a float v and a threshold t in units of 10^-5; a
\* comparison with NaN is false
GreaterEq(v, t) == ~IsNaN(v) /\ v.num >= t * v.den
LessEq(v, t) == ~IsNaN(v) /\ v.num <= t * v.den

PositiveFrom == 50000
NegativeFrom == 0 - 50000

\* gold_flow.sentiment_label
sentiment_label(v) ==
    IF GreaterEq(v, PositiveFrom) THEN "positive"
    ELSE IF LessEq(v, NegativeFrom) THEN "negative"
    ELSE "neutral"

\* df["sentiment_score_val"] of one row.  A cell read back from the silver CSV
\* is text, never a dict, so the "sentiment" branch yields NaN for every row.
sentiment_score_val(df, r) ==
    IF "sentiment_score" \in df.cols THEN to_numeric(r["sentiment_score"])
    ELSE NaN

\* the order of Python strings, on the characters the keys use
CodePoints ==
    " '+-.0123456789:ABCDEFGHIJKLMNOPQRSTUVWXYZ_abcdefghijklmnopqrstuvwxyz{}"

CodePoint(c) == CHOOSE i \in 1..Len(CodePoints) : CharAt(CodePoints, i) = c

RECURSIVE StrLess(_, _)
StrLess(a, b) ==
    IF b = "" THEN FALSE
    ELSE IF a = "" THEN TRUE
    ELSE IF Head(a) = Head(b) THEN StrLess(Tail(a), Tail(b))
    ELSE CodePoint(Head(a)) < CodePoint(Head(b))

\* the keys of a groupby, in its (sorted) order
RECURSIVE SortedKeys(_)
SortedKeys(keys) ==
    IF keys = {} THEN <<>>
    ELSE LET least == CHOOSE k \in keys : \A j \in keys \ {k} : StrLess(k, j)
         IN  <<least>> \o SortedKeys(keys \ {least})

\* the number of rows whose key is k
RECURSIVE CountKey(_, _, _)
CountKey(rows, Key(_), k) ==
    IF rows = <<>> THEN 0
    ELSE (IF Key(Head(rows)) = k THEN 1 ELSE 0) + CountKey(Tail(rows), Key, k)

\* groupby(key).size().reset_index(name=...): NA keys are dropped (the label
\* column, grouped with dropna=False, never holds NA)
GroupSize(rows, Key(_)) ==
    LET keys == SortedKeys({ Key(rows[i]) : i \in 1..Len(rows) } \ {NA})
    IN  MapSeq(LAMBDA g : [key |-> keys[g], value |-> Count(CountKey(rows, Key, keys[g]))],
               Len(keys))

\* sum and count of the non-NaN values of the rows whose key is k
RECURSIVE SumKey(_, _, _, _)
SumKey(rows, Key(_), Val(_), k) ==
    IF rows = <<>> THEN <<0, 0>>
    ELSE LET rest == SumKey(Tail(rows), Key, Val, k)
             v    == Val(Head(rows))
         IN  IF Key(Head(rows)) = k /\ ~IsNaN(v)
             THEN <<rest[1] + v.num, rest[2] + 1>>
             ELSE rest

\* Series.mean() of a group: NaN values are skipped, the mean of none is NaN
Mean(sc) == IF sc[2] = 0 THEN NaN ELSE Float(sc[1], sc[2])

\* groupby(key)[col].mean().reset_index(name=...)
GroupMean(rows, Key(_), Val(_)) ==
    LET keys == SortedKeys({ Key(rows[i]) : i \in 1..Len(rows) } \ {NA})
    IN  MapSeq(LAMBDA g : [key |-> keys[g], value |-> Mean(SumKey(rows, Key, Val, keys[g]))],
               Len(keys))

\* n / d rounded to the nearest integer, ties to even (d > 0)
RoundHalfEven(n, d) ==
    LET q == n \div d
        r == n % d
    IN  IF 2 * r < d THEN q
        ELSE IF 2 * r > d THEN q + 1
        ELSE IF q % 2 = 0 THEN q ELSE q + 1

\* round(v, 4): NaN stays NaN
Round4(v) == IF IsNaN(v) THEN NaN ELSE Float(RoundHalfEven(v.num, v.den * 10) * 10, 1)

\* Python truth of a float: only 0.0 is false, NaN is true
Truthy(v) == IsNaN(v) \/ v.num # 0

\* float(round(r["avg_response_time_hours"] or 0.0, 4))
SummaryAvg(v) == Round4(IF Truthy(v) THEN v ELSE Float(0, 1))

\* a gold table: its two (or three) columns and its rows
Table(columns, rows) == [cols |-> columns, rows |-> rows]

AgentKey(r) == r["agent_id"]
StatusKey(r) == r["status"]

\* 1) tickets_per_agent.csv
TicketsPerAgent(df) ==
    Table(<<"agent_id", "tickets_count">>,
          IF "agent_id" \in df.cols THEN GroupSize(df.rows, AgentKey) ELSE <<>>)

\* 2) tickets_by_status.csv
TicketsByStatus(df) ==
    Table(<<"status", "tickets_count">>,
          IF "status" \in df.cols THEN GroupSize(df.rows, StatusKey) ELSE <<>>)

\* 3) tickets_by_sentiment.csv
TicketsBySentiment(df) ==
    Table(<<"sentiment_label", "count">>,
          GroupSize(df.rows, LAMBDA r : sentiment_label(sentiment_score_val(df, r))))

\* 4) avg_response_time_per_agent.csv
AvgResponseTime(df) ==
    Table(<<"agent_id", "avg_response_time_hours">>,
          IF "agent_id" \in df.cols /\ "response_time_hours" \in df.cols
          THEN GroupMean(df.rows, AgentKey, LAMBDA r : to_numeric(r["response_time_hours"]))
          ELSE <<>>)

\* the rows one aggregate table adds to gold_summary.csv
SummaryRows(Value(_), metric, table) ==
    MapSeq(LAMBDA i : [metric |-> metric, key |-> table.rows[i].key,
                       value |-> Value(table.rows[i].value)],
           Len(table.rows))

\* int(r["tickets_count"])
SummaryCount(v) == v

\* gold_summary.csv with the status rows written after the sentiment rows
GoldSummaryReordered(tpa, tbs, tbsent, avg_resp) ==
    Table(<<"metric", "key", "value">>,
          SummaryRows(SummaryCount, "tickets_per_agent", tpa)
          \o SummaryRows(SummaryCount, "tickets_by_sentiment", tbsent)
          \o SummaryRows(SummaryCount, "tickets_by_status", tbs)
          \o SummaryRows(SummaryAvg, "avg_response_time_per_agent", avg_resp))

\* gold_summary.csv: metric, key, value
GoldSummary(tpa, tbs, tbsent, avg_resp) ==
    Table(<<"metric", "key", "value">>,
          SummaryRows(SummaryCount, "tickets_per_agent", tpa)
          \o SummaryRows(SummaryCount, "tickets_by_status", tbs)
          \o SummaryRows(SummaryCount, "tickets_by_sentiment", tbsent)
          \o SummaryRows(SummaryAvg, "avg_response_time_per_agent", avg_resp))

\* no gold file on storage
NoGold ==
    [present |-> FALSE,
     tickets_per_agent |-> Table(<<>>, <<>>),
     tickets_by_status |-> Table(<<>>, <<>>),
     tickets_by_sentiment |-> Table(<<>>, <<>>),
     avg_response_time_per_agent |-> Table(<<>>, <<>>),
     gold_summary |-> Table(<<>>, <<>>)]

\* the five files gold_flow writes for a silver file it could read
GoldFiles(file) ==
    LET df == read_csv(file)
        tpa == TicketsPerAgent(df)
        tbs == TicketsByStatus(df)
        tbsent == TicketsBySentiment(df)
        avg_resp == AvgResponseTime(df)
    IN  [present |-> TRUE,
         tickets_per_agent |-> tpa,
         tickets_by_status |-> tbs,
         tickets_by_sentiment |-> tbsent,
         avg_response_time_per_agent |-> avg_resp,
         gold_summary |-> GoldSummary(tpa, tbs, tbsent, avg_resp)]

\* gold_flow without the test that the silver file exists: read_csv raises
GoldResultUnchecked(file) == IF ReadRaises(file) THEN "raised" ELSE "ok"

\* how gold_flow ends on a silver file
GoldResult(file) ==
    IF ~file.present THEN "short"
    ELSE IF ReadRaises(file) THEN "raised"
    ELSE "ok"

\* the gold files after gold_flow ran on a silver file
GoldWritten(file, old) ==
    IF GoldResult(file) = "ok" THEN GoldFiles(file) ELSE old

GoldFlow ==
    /\ gold' = GoldWritten(silver, gold)
    /\ outcome' = [outcome EXCEPT !["gold"] = GoldResult(silver)]
    /\ last' = "gold_flow"
    /\ UNCHANGED <<raw_csvs, support_tickets, bronze, silver>>

(***************************************************************************)
(* run_pipeline.run_all: the three flows in order; an exception of a flow   *)
(* ends the run, and the flows after it do not run ("-").                   *)
(***************************************************************************)
RunAll ==
    LET b    == to_csv(BronzeFrame)
        sres == SilverResult(b)
        s    == SilverWritten(b, silver)
        gres == IF sres = "raised" THEN "-" ELSE GoldResult(s)
    IN  /\ bronze' = b
        /\ silver' = s
        /\ gold' = IF gres = "ok" THEN GoldFiles(s) ELSE gold
        /\ outcome' = [bronze |-> "ok", silver |-> sres, gold |-> gres]
        /\ last' = "run_all"
        /\ UNCHANGED <<raw_csvs, support_tickets>>

Stages == {"bronze", "silver", "gold"}

Init ==
    /\ \E in \in TabularInputs \cup LogInputs :
          /\ raw_csvs = [f \in CsvNameSet |->
                            CASE f = "customers.csv" -> in.customers
                              [] f = "orders.csv" -> in.orders
                              [] f = "stores.csv" -> in.stores
                              [] OTHER -> ABSENT]
          /\ support_tickets = in.log
    /\ bronze = ABSENT
    /\ silver \in {ABSENT, StaleSilver}
    /\ gold = NoGold
    /\ outcome = [s \in Stages |-> "-"]
    /\ last = "none"

Next == BronzeFlow \/ SilverFlow \/ GoldFlow \/ RunAll

Spec == Init /\ [][Next]_vars

(***************************************************************************)
(* Properties.                                                             *)
(***************************************************************************)
\* gold_flow was the last flow to read the silver file now on storage and wrote
\* its tables from it
GoldFromSilver == last \in {"gold_flow", "run_all"} /\ outcome["gold"] = "ok"

\* the number of rows of a sequence that satisfy Test
RECURSIVE CountRows(_, _)
CountRows(Test(_), rows) ==
    IF rows = <<>> THEN 0
    ELSE (IF Test(Head(rows)) THEN 1 ELSE 0) + CountRows(Test, Tail(rows))

MetricOrder ==
    <<"tickets_per_agent", "tickets_by_status", "tickets_by_sentiment",
      "avg_response_time_per_agent">>

\* the aggregate table written under a metric name
MetricTable(m) ==
    CASE m = "tickets_per_agent" -> gold.tickets_per_agent
      [] m = "tickets_by_status" -> gold.tickets_by_status
      [] m = "tickets_by_sentiment" -> gold.tickets_by_sentiment
      [] m = "avg_response_time_per_agent" -> gold.avg_response_time_per_agent

\* the number of summary rows that come before the rows of the k-th metric
RECURSIVE RowsBefore(_)
RowsBefore(k) ==
    IF k = 1 THEN 0 ELSE RowsBefore(k - 1) + Len(MetricTable(MetricOrder[k - 1]).rows)

\* C7: the summary table holds every row of the four aggregate tables exactly
\* once: the rows of tickets_per_agent, tickets_by_status, tickets_by_sentiment
\* and avg_response_time_per_agent follow each other in this order and in each
\* table's row order, each under its metric name and with its key, and the
\* summary has as many rows as the four tables together.
C7_SummaryComplete ==
    gold.present =>
        LET summary == gold.gold_summary.rows
        IN  /\ Len(summary) = RowsBefore(Len(MetricOrder))
                               + Len(MetricTable(MetricOrder[Len(MetricOrder)]).rows)
            /\ \A k \in 1..Len(MetricOrder) :
                 LET rows == MetricTable(MetricOrder[k]).rows
                 IN  \A i \in 1..Len(rows) :
                        /\ RowsBefore(k) + i <= Len(summary)
                        /\ summary[RowsBefore(k) + i].metric = MetricOrder[k]
                        /\ summary[RowsBefore(k) + i].key = rows[i].key

\* a run wrote a summary in which each of the four tables has rows
C7_Witness ==
    /\ gold.present
    /\ \A k \in 1..Len(MetricOrder) : Len(MetricTable(MetricOrder[k]).rows) >= 1
    /\ Len(gold.gold_summary.rows) >= 6

\* the cells of a row that silver_flow copies unchanged from bronze
Copied(r) ==
    LET keep == DOMAIN r \ (TimestampColumns \cup {"response_time_hours"})
    IN  MapCols(LAMBDA c : r[c], keep)

CopiedRows(rows) == MapSeq(LAMBDA i : Copied(rows[i]), Len(rows))

\* C8: when the bronze schema has a ticket_id field, the silver rows are exactly
\* the bronze rows whose ticket_id is non-null and not blank after trimming
\* whitespace, in their bronze order; when it has none, silver has as many rows
\* as bronze.
C8_SilverFiltering ==
    outcome["silver"] = "ok" =>
        LET b == read_csv(bronze).rows
            s == read_csv(silver).rows
            Kept(r) == r["ticket_id"] # NA /\ Strip(r["ticket_id"], {" ", "\t"}) # ""
        IN  IF "ticket_id" \in bronze.cols
            THEN CopiedRows(s) = CopiedRows(SelectSeq(b, Kept))
            ELSE Len(s) = Len(b) /\ CopiedRows(s) = CopiedRows(b)

\* silver_flow dropped a row whose ticket_id is blank and kept another row
C8_Witness ==
    /\ outcome["silver"] = "ok"
    /\ "ticket_id" \in bronze.cols
    /\ \E i \in 1..Len(bronze.rows) : bronze.rows[i]["ticket_id"] = " "
    /\ Len(silver.rows) >= 1
    /\ Len(silver.rows) < Len(bronze.rows)

PresentNames == SelectSeq(csv_names, LAMBDA f : raw_csvs[f].present)

\* for every row of the sources, in reading order, the file it comes from
RECURSIVE CsvOrigins(_)
CsvOrigins(names) ==
    IF names = <<>> THEN <<>>
    ELSE MapSeq(LAMBDA i : Head(names), Len(raw_csvs[Head(names)].rows))
         \o CsvOrigins(Tail(names))

Origins ==
    CsvOrigins(PresentNames)
    \o MapSeq(LAMBDA i : "support_tickets.jsonl", Len(support_tickets.rows))

\* the normalized column names a source declares (the event log also gets
\* sentiment_score when it has a sentiment field)
SourceColumns(f) ==
    IF f = "support_tickets.jsonl"
    THEN LET keys == { _to_snake(k) :
                         k \in UNION { DOMAIN support_tickets.rows[i] :
                                         i \in 1..Len(support_tickets.rows) } }
         IN  keys \cup (IF "sentiment" \in keys THEN {"sentiment_score"} ELSE {})
    ELSE { _to_snake(h) : h \in raw_csvs[f].cols }

\* the sources on storage
Sources ==
    { f \in CsvNameSet : raw_csvs[f].present }
    \cup (IF support_tickets.present THEN {"support_tickets.jsonl"} ELSE {})

\* the provenance column, under the name the claims give it and the name it is
\* written with
Provenance == {"_src", "src"}

LogicalNames ==
    [f \in CsvNameSet |->
        CASE f = "customers.csv" -> "customers"
          [] f = "orders.csv" -> "orders"
          [] f = "stores.csv" -> "stores"
          [] f = "products.csv" -> "products"
          [] f = "items.csv" -> "items"
          [] f = "supplies.csv" -> "supplies"]

\* C4: the bronze table written from tabular sources has a column _src; it holds
\* the logical name of its source (the file name without .csv) in every row of a
\* tabular source and null in every row of the event log.
C4_Provenance ==
    (bronze.present /\ \E f \in CsvNameSet : raw_csvs[f].present /\ Len(raw_csvs[f].rows) >= 1) =>
        LET from == Origins
        IN  /\ "_src" \in bronze.cols
            /\ Len(bronze.rows) = Len(from)
            /\ \A i \in 1..Len(from) :
                 bronze.rows[i]["_src"] =
                     IF from[i] = "support_tickets.jsonl" THEN "" ELSE LogicalNames[from[i]]

\* C5: the columns of the bronze table are the union of the normalized columns
\* of the sources read (the provenance column aside), whatever the row counts, so
\* that the order of two sources does not change the column set; bronze has as
\* many rows as the sources together, and a row is null in every column its own
\* source lacks.
C5_UnionByColumns ==
    bronze.present =>
        LET from == Origins
            expected == UNION { SourceColumns(f) : f \in Sources }
        IN  /\ bronze.cols \ Provenance = expected \ Provenance
            /\ \A f, g \in Sources :
                 LET a == FrameOf(SourceColumns(f))
                     b == FrameOf(SourceColumns(g))
                 IN  concat(<<a, b>>).cols = concat(<<b, a>>).cols
            /\ Len(bronze.rows) = Len(from)
            /\ \A i \in 1..Len(from) :
                 \A c \in (bronze.cols \ Provenance) \ SourceColumns(from[i]) :
                    bronze.rows[i][c] = ""

\* C9: _to_snake applied twice gives what it gives applied once, on every header
\* of the sources; the column names of the union are therefore left as they are
\* by the normalization that follows the union; "Customer ID" and "customerId"
\* both become "customer_id".
C9_Idempotent ==
    bronze.present =>
        /\ \A f \in CsvNameSet : \A h \in raw_csvs[f].cols :
              _to_snake(_to_snake(h)) = _to_snake(h)
        /\ \A c \in combined.cols : _to_snake(c) = c
        /\ _to_snake("Customer ID") = "customer_id"
        /\ _to_snake("customerId") = "customer_id"

\* C6: every avg_response_time_per_agent row of the summary carries the mean of
\* the per-agent table rounded to 4 decimal places; an agent with no non-null
\* response_time_hours has NaN in the per-agent table and 0.0 in the summary.
C6_SummaryMean ==
    GoldFromSilver =>
        LET df == read_csv(silver)
            avg == gold.avg_response_time_per_agent.rows
            summary == gold.gold_summary.rows
            first == Len(summary) - Len(avg)
            Undefined(agent) ==
                \A i \in 1..Len(df.rows) :
                    df.rows[i]["agent_id"] = agent =>
                        IsNaN(to_numeric(df.rows[i]["response_time_hours"]))
            Distance(a, b) == IF a >= b THEN a - b ELSE b - a
        IN  \A i \in 1..Len(avg) :
               LET mean == avg[i].value
                   value == summary[first + i].value
               IN  IF Undefined(avg[i].key)
                   THEN IsNaN(mean) /\ value = Float(0, 1)
                   ELSE /\ ~IsNaN(mean) /\ ~IsNaN(value)
                        /\ value.den = 1 /\ value.num % 10 = 0
                        /\ 2 * Distance(value.num * mean.den, mean.num) <= 10 * mean.den

\* run_all has just run on tabular sources only, none of which declares
\* ticket_id, agent_id, status, sentiment or sentiment_score
TabularRun ==
    /\ last = "run_all"
    /\ ~support_tickets.present
    /\ \E f \in CsvNameSet : raw_csvs[f].present
    /\ \A f \in CsvNameSet :
          SourceColumns(f) \cap {"ticket_id", "agent_id", "status", "sentiment", "sentiment_score"} = {}

\* the number of rows of the tabular sources together
TabularRows == Len(CsvOrigins(PresentNames))

\* a gold table with its two columns and no row
EmptyTable(t) == Len(t.cols) = 2 /\ t.rows = <<>>

\* C1 as stated: after bronze, silver and gold ran on tabular sources only,
\* bronze has the sum of the sources' rows, silver has as many rows, all with a
\* null response_time_hours, and each of the four gold tables has its two
\* columns and no row.
C1_EndToEnd ==
    TabularRun =>
        /\ Len(bronze.rows) = TabularRows
        /\ outcome["silver"] = "ok"
        /\ Len(silver.rows) = TabularRows
        /\ \A i \in 1..Len(silver.rows) : silver.rows[i]["response_time_hours"] = ""
        /\ outcome["gold"] = "ok"
        /\ EmptyTable(gold.tickets_per_agent)
        /\ EmptyTable(gold.tickets_by_status)
        /\ EmptyTable(gold.tickets_by_sentiment)
        /\ EmptyTable(gold.avg_response_time_per_agent)

\* C1 amended: when the tabular sources hold at least one row, bronze has the sum
\* of their rows and silver as many; response_time_hours is null in every row
\* unless the sources declare both resolved_at and first_response_at;
\* tickets_per_agent, tickets_by_status and avg_response_time_per_agent have their
\* two columns and no row, and tickets_by_sentiment has its two columns and the
\* single row (neutral, number of rows).
C1_EndToEndAmended ==
    (TabularRun /\ TabularRows >= 1) =>
        /\ Len(bronze.rows) = TabularRows
        /\ outcome["silver"] = "ok"
        /\ Len(silver.rows) = TabularRows
        /\ ({"resolved_at", "first_response_at"} \subseteq bronze.cols
              \/ \A i \in 1..Len(silver.rows) : silver.rows[i]["response_time_hours"] = "")
        /\ outcome["gold"] = "ok"
        /\ EmptyTable(gold.tickets_per_agent)
        /\ EmptyTable(gold.tickets_by_status)
        /\ EmptyTable(gold.avg_response_time_per_agent)
        /\ Len(gold.tickets_by_sentiment.cols) = 2
        /\ gold.tickets_by_sentiment.rows = <<[key |-> "neutral", value |-> Count(TabularRows)]>>

\* run_all ran on customers.csv with 3 rows and orders.csv with 2 rows
C1_Witness ==
    /\ TabularRun
    /\ Len(raw_csvs["customers.csv"].rows) = 3
    /\ Len(raw_csvs["orders.csv"].rows) = 2
    /\ ~raw_csvs["stores.csv"].present
    /\ Len(bronze.rows) = 5
    /\ Len(silver.rows) = 5
    /\ gold.present

\* no input file is on storage
NoInputs == ~support_tickets.present /\ \A f \in CsvNameSet : ~raw_csvs[f].present

\* C2: run_all on a storage with no input and no output file writes a bronze
\* table with no columns and no rows; silver_flow and gold_flow find their input
\* missing, return early and write nothing; no flow raises.
C2_EmptyInput ==
    [][(NoInputs /\ ~bronze.present /\ ~silver.present /\ ~gold.present /\ last' = "run_all") =>
          /\ bronze'.present /\ bronze'.cols = {} /\ bronze'.rows = <<>>
          /\ outcome'["silver"] = "short" /\ ~silver'.present
          /\ outcome'["gold"] = "short" /\ ~gold'.present]_vars

\* a flow whose input file is absent returns early and writes nothing
ShortCircuits ==
    /\ (last' = "silver_flow" /\ ~bronze.present) =>
          outcome'["silver"] = "short" /\ UNCHANGED <<bronze, silver, gold>>
    /\ (last' = "gold_flow" /\ ~silver.present) =>
          outcome'["gold"] = "short" /\ UNCHANGED <<bronze, silver, gold>>

\* C3 as stated: a flow whose input is absent returns early and writes nothing,
\* and the flow after a short-circuited one short-circuits too, whatever is on
\* storage: gold_flow after a short-circuited silver_flow returns early.
C3_Cascade ==
    [][/\ ShortCircuits
       /\ (last = "silver_flow" /\ outcome["silver"] = "short" /\ last' = "gold_flow") =>
             outcome'["gold"] = "short"]_vars

\* C3 amended: a flow whose input is absent returns early and writes nothing;
\* gold_flow after a short-circuited silver_flow returns early when no silver
\* file of an earlier run is on storage.
C3_CascadeAmended ==
    [][/\ ShortCircuits
       /\ (last = "silver_flow" /\ outcome["silver"] = "short" /\ ~silver.present
             /\ last' = "gold_flow") =>
             outcome'["gold"] = "short"]_vars

\* silver_flow returned early on a missing bronze file and gold_flow, run next,
\* returned early too
C3_Witness ==
    /\ last = "gold_flow"
    /\ ~bronze.present /\ ~silver.present /\ ~gold.present
    /\ outcome["silver"] = "short"
    /\ outcome["gold"] = "short"

====
